---- MODULE Spec2Model ----
\* A model of the draco_decoder buffer layout engine (src/src/utils.rs) and of
\* the two decode orchestrators (src/src/ffi.rs, src/src/wasm.rs).
EXTENDS Integers, Sequences, FiniteSets, TLC

VARIABLES
    build,      \* the build the program was compiled as (see Builds)
    config,     \* the DracoDecodeConfig a caller of utils.rs holds
    status,     \* "none": no config yet; "ok": the last call returned; "panic": it panicked
    calls,      \* the names of the calls made on the config, oldest first
    op,         \* the last call and its arguments
    pre,        \* the config as it was before the last call
    inserted    \* the add_attribute / add_attribute_with_offset calls that returned, oldest first

VARIABLES
    entry,      \* the lib.rs function the host called
    native_pc,  \* where ffi::decode_mesh_with_config stands: the engine call it makes next
    mesh,       \* the mesh behind the handle create_mesh returned: <<>> or <<m>>
    cpp_config, \* the cpp::MeshConfig that compute_mesh_config filled
    buffer_len, \* buffer.len()
    written,    \* what decode_mesh_to_buffer returned
    failed,     \* the engine stage that failed, "none" if none did
    result,     \* what the decode call returned to the host
    engine_calls \* the engine functions the decode call has called, oldest first

VARIABLES
    cache,          \* DRACO_DECODE_FUNC_MODULE: 0 for None, else the module it holds
    loads,          \* the number of module loads started (each makes a module of its own)
    cache_writes,   \* the number of writes to the cache
    worker_pc,      \* where each worker decode call stands: the await it is suspended at
    loading_id,     \* the module each call's own load resolves with
    module_of,      \* the module get_js_module returned to each call, 0 if none yet
    response,       \* the value each call's decode promise was resolved with
    worker_failed,  \* the Err each call ended with, "none" if none
    logged,         \* whether each call wrote the error to the console
    worker_result   \* what each call returned to its caller

layoutVars == <<status, calls, op, pre, inserted>>

workerVars == <<cache, loads, cache_writes, worker_pc, loading_id, module_of, response, worker_failed, logged,
                worker_result>>

nativeVars == <<entry, native_pc, mesh, cpp_config, buffer_len, written, failed, result, engine_calls>>

vars == <<build, config, layoutVars, nativeVars, workerVars>>

\* ---------------------------------------------------------------------------
\* Machine integers.  A u32 or usize value does not fit a model-checker
\* integer, so every number of the program is a little-endian tuple of ND
\* digits in base 2^8.  A u32 is a number whose digits above the 4th are 0, a
\* usize one whose digits above the 4th or the 8th, by the build, are 0.
\* ---------------------------------------------------------------------------
Base == 2 ^ 8

ND == 9

\* A u32 is 32 bits, 8 bits a digit.
U32Digits == 32 \div 8

DigitIdx == 1..ND

\* The number n (0 <= n < 2^31) as a digit tuple.
Big(n) == [i \in DigitIdx |-> IF i <= 4 THEN (n \div (Base ^ (i - 1))) % Base ELSE 0]

\* The number whose i-th digit is d and whose other digits are 0.
DigitAt(i, d) == [j \in DigitIdx |-> IF j = i THEN d ELSE 0]

RECURSIVE AddFrom(_, _, _, _)
\* The digits of a + b from the i-th on, given the carry into the i-th.
AddFrom(a, b, i, carry) ==
    IF i > ND THEN <<>>
    ELSE LET t == a[i] + b[i] + carry
         IN  <<t % Base>> \o AddFrom(a, b, i + 1, t \div Base)

\* a + b (exact while the sum has at most ND digits).
Add(a, b) == AddFrom(a, b, 1, 0)

RECURSIVE MulColumn(_, _, _, _)
\* The sum of the digit products a[i] * b[j] with i + j = k + 1, from i on.
MulColumn(a, b, k, i) == IF i > k THEN 0 ELSE a[i] * b[k + 1 - i] + MulColumn(a, b, k, i + 1)

RECURSIVE MulFrom(_, _, _, _)
\* The digits of a * b from the k-th on, given the carry into the k-th.
MulFrom(a, b, k, carry) ==
    IF k > ND THEN <<>>
    ELSE LET t == MulColumn(a, b, k, 1) + carry
         IN  <<t % Base>> \o MulFrom(a, b, k + 1, t \div Base)

\* a * b (exact while the product has at most ND digits).
Mul(a, b) == MulFrom(a, b, 1, 0)

\* a mod 2^(8n): what a cast to an n-byte integer, or wrapping arithmetic, keeps.
Trunc(a, n) == [i \in DigitIdx |-> IF i <= n THEN a[i] ELSE 0]

\* a fits an n-byte integer.
Fits(a, n) == \A i \in DigitIdx : i > n => a[i] = 0

RECURSIVE LessEqFrom(_, _, _)
LessEqFrom(a, b, i) == IF i = 0 THEN TRUE ELSE IF a[i] # b[i] THEN a[i] < b[i] ELSE LessEqFrom(a, b, i - 1)

\* a <= b
LessEq(a, b) == LessEqFrom(a, b, ND)

Zero == Big(0)

U16_MAX == Big(65535)

U32_MAX == Trunc([i \in DigitIdx |-> Base - 1], U32Digits)

\* 2^16, 2^30 and 2^30 - 1: the counts at which a product leaves u32.
Pow2_16 == DigitAt(3, 1)

Pow2_30 == DigitAt(4, 64)

Pow2_30m1 == [i \in DigitIdx |-> IF i <= 3 THEN Base - 1 ELSE IF i = 4 THEN 63 ELSE 0]

\* ---------------------------------------------------------------------------
\* The build: the width of usize in bytes (4 on wasm32 and other 32-bit
\* targets, 8 on 64-bit ones) and whether arithmetic overflow panics
\* (overflow-checks, the default of debug builds) or wraps (release builds).
\* ---------------------------------------------------------------------------
Builds == [usize_bytes : {U32Digits, 2 * U32Digits}, overflow_checks : BOOLEAN]

\* x * y in an n-byte integer type: the wrapped product, and whether it overflowed.
WrappingMul(x, y, n) == LET p == Mul(x, y) IN [value |-> Trunc(p, n), overflow |-> ~Fits(p, n)]

\* x + y in an n-byte integer type: the wrapped sum, and whether it overflowed.
WrappingAdd(x, y, n) == LET t == Add(x, y) IN [value |-> Trunc(t, n), overflow |-> ~Fits(t, n)]

\* ---------------------------------------------------------------------------
\* src/src/utils.rs
\* ---------------------------------------------------------------------------
AttributeDataType == {"Int8", "UInt8", "Int16", "UInt16", "Int32", "UInt32", "Float32"}

size_in_bytes(data_type) ==
    CASE data_type \in {"Int8", "UInt8"} -> Big(1)
      [] data_type \in {"Int16", "UInt16"} -> Big(2)
      [] data_type \in {"Int32", "UInt32", "Float32"} -> Big(4)

MeshAttribute(dim, data_type, offset, lenght) ==
    [dim |-> dim, data_type |-> data_type, offset |-> offset, lenght |-> lenght]

DracoDecodeConfig(vertex_count, index_count, index_length, buffer_size, attributes) ==
    [vertex_count |-> vertex_count, index_count |-> index_count, index_length |-> index_length,
     buffer_size |-> buffer_size, attributes |-> attributes]

\* The value no config field holds before a constructor has run.
NoConfig == DracoDecodeConfig(Zero, Zero, Zero, Zero, <<>>)

\* utils.rs:105-109 and 126-130: `index_count as usize * 2` (or `* 4`), then
\* `as u32`. The multiplication is a usize one; the cast truncates silently.
IndexLength(b, index_count) ==
    LET m == WrappingMul(index_count, IF LessEq(index_count, U16_MAX) THEN Big(2) ELSE Big(4), b.usize_bytes)
    IN  [panicked |-> m.overflow /\ b.overflow_checks, value |-> Trunc(m.value, U32Digits)]

\* DracoDecodeConfig::new
New(b, vertex_count, index_count) ==
    LET il == IndexLength(b, index_count)
    IN  [panicked |-> il.panicked,
         config |-> DracoDecodeConfig(vertex_count, index_count, il.value, il.value, <<>>)]

\* DracoDecodeConfig::with_buffer_size
WithBufferSize(b, vertex_count, index_count, buffer_size) ==
    LET il == IndexLength(b, index_count)
    IN  [panicked |-> il.panicked,
         config |-> DracoDecodeConfig(vertex_count, index_count, il.value, buffer_size, <<>>)]

\* utils.rs:157: `dim * self.vertex_count * data_type.size_in_bytes() as u32`,
\* two u32 multiplications, left to right.
AttributeLength(c, dim, data_type) ==
    LET p1 == WrappingMul(dim, c.vertex_count, U32Digits)
        p2 == WrappingMul(p1.value, size_in_bytes(data_type), U32Digits)
    IN  [value |-> p2.value, overflow |-> p1.overflow \/ p2.overflow]

\* DracoDecodeConfig::add_attribute. A panic of the length computation leaves
\* the config as it was; a panic of `buffer_size += length` happens after the
\* push.
AddAttribute(b, c, dim, data_type) ==
    LET offset == Trunc(c.buffer_size, U32Digits)
        length == AttributeLength(c, dim, data_type)
        grown == WrappingAdd(c.buffer_size, length.value, b.usize_bytes)
        pushed == [c EXCEPT !.attributes = Append(@, MeshAttribute(dim, data_type, offset, length.value))]
    IN  IF length.overflow /\ b.overflow_checks
        THEN [panicked |-> TRUE, config |-> c]
        ELSE IF grown.overflow /\ b.overflow_checks
        THEN [panicked |-> TRUE, config |-> pushed]
        ELSE [panicked |-> FALSE, config |-> [pushed EXCEPT !.buffer_size = grown.value]]

\* add_attribute_with_offset had it extended buffer_size the way add_attribute does.
AddAttributeWithOffset_Extending(c, dim, data_type, offset, length) ==
    [c EXCEPT !.attributes = Append(@, MeshAttribute(dim, data_type, offset, length)),
              !.buffer_size = Add(@, length)]

\* add_attribute_with_offset had it inserted the attribute at the front of the list.
AddAttributeWithOffset_Prepending(c, dim, data_type, offset, length) ==
    [c EXCEPT !.attributes = <<MeshAttribute(dim, data_type, offset, length)>> \o @]

\* DracoDecodeConfig::add_attribute_with_offset
AddAttributeWithOffset(c, dim, data_type, offset, length) ==
    [c EXCEPT !.attributes = Append(@, MeshAttribute(dim, data_type, offset, length))]

\* DracoDecodeConfig::set_buffer_size
SetBufferSize(c, size) == [c EXCEPT !.buffer_size = size]

\* DracoDecodeConfig::get_attribute: the attribute at a 0-based index, if any.
GetAttribute(c, index) == IF index + 1 \in DOMAIN c.attributes THEN <<c.attributes[index + 1]>> ELSE <<>>

\* MeshDecodeResult, and what else a decode call can end in: "Some" with the
\* length of data and the config, "None", or "panic" (the call unwinds or
\* aborts instead of returning); "pending" while the call has not ended.
MeshDecodeResult(data_len, c) == [kind |-> "Some", data_len |-> data_len, config |-> c]

NoResult == [kind |-> "pending", data_len |-> Zero, config |-> NoConfig]

None == [kind |-> "None", data_len |-> Zero, config |-> NoConfig]

Panic == [kind |-> "panic", data_len |-> Zero, config |-> NoConfig]

\* ---------------------------------------------------------------------------
\* The native decode engine behind the cxx bridge of src/src/ffi.rs. Its
\* declarations are in ffi.rs; what it reports is modelled from the
\* specification: the layout of the mesh, index data first, then each
\* attribute in order.
\* ---------------------------------------------------------------------------
\* The numeric data-type codes of the engine, and a code it has no entry for.
KnownCodes == 0..6

UnknownCode == 7

\* The element size the engine lays an attribute out with.
EngineElementSize(code) ==
    CASE code \in {0, 1} -> Big(1)
      [] code \in {2, 3} -> Big(2)
      [] code \in {4, 5, 6} -> Big(4)
      [] OTHER -> Big(8)

CppMeshAttribute(dim, data_type, offset, length, unique_id) ==
    [dim |-> dim, data_type |-> data_type, offset |-> offset, length |-> length, unique_id |-> unique_id]

CppMeshConfig(vertex_count, index_count, index_length, buffer_size, attributes) ==
    [vertex_count |-> vertex_count, index_count |-> index_count, index_length |-> index_length,
     buffer_size |-> buffer_size, attributes |-> attributes]

\* ffi.rs:73-79: the MeshConfig handed to compute_mesh_config.
NoCppConfig == CppMeshConfig(Zero, Zero, Zero, Zero, <<>>)

RECURSIVE EngineAttributes(_, _, _)
\* The attributes of mesh m from the i-th on, the i-th starting at offset.
EngineAttributes(m, i, offset) ==
    IF i > Len(m.attributes) THEN <<>>
    ELSE LET a == m.attributes[i]
             length == Mul(Mul(a.dim, m.vertex_count), EngineElementSize(a.data_type))
         IN  <<CppMeshAttribute(a.dim, Big(a.data_type), offset, length, Big(i - 1))>>
                 \o EngineAttributes(m, i + 1, Add(offset, length))

\* What compute_mesh_config reports for mesh m.
EngineMeshConfig(m) ==
    LET index_length == Mul(m.index_count, IF LessEq(m.index_count, U16_MAX) THEN Big(2) ELSE Big(4))
        attributes == EngineAttributes(m, 1, index_length)
        buffer_size == IF attributes = <<>> THEN index_length
                       ELSE Add(attributes[Len(attributes)].offset, attributes[Len(attributes)].length)
    IN  CppMeshConfig(m.vertex_count, m.index_count, index_length, buffer_size, attributes)

\* The report fits the fields of cpp::MeshConfig (u32, and usize for buffer_size).
Representable(b, cc) ==
    /\ Fits(cc.vertex_count, U32Digits) /\ Fits(cc.index_count, U32Digits) /\ Fits(cc.index_length, U32Digits)
    /\ Fits(cc.buffer_size, b.usize_bytes)
    /\ \A i \in DOMAIN cc.attributes :
         Fits(cc.attributes[i].offset, U32Digits) /\ Fits(cc.attributes[i].length, U32Digits)

\* ---------------------------------------------------------------------------
\* src/src/ffi.rs
\* ---------------------------------------------------------------------------
\* ffi.rs:51-60: the data type of a numeric code (a u32).
NativeDataType(code) ==
    CASE code = Big(0) -> "Int8"
      [] code = Big(1) -> "UInt8"
      [] code = Big(2) -> "Int16"
      [] code = Big(3) -> "UInt16"
      [] code = Big(4) -> "Int32"
      [] code = Big(5) -> "UInt32"
      [] code = Big(6) -> "Float32"
      [] OTHER -> "UInt8"

RECURSIVE ConvertAttributes_SkipsLast(_, _, _)
\* The loop of convert_config had it stopped one attribute early.
ConvertAttributes_SkipsLast(c, attributes, i) ==
    IF i >= Len(attributes) THEN c
    ELSE LET attr == attributes[i]
         IN  ConvertAttributes_SkipsLast(
                 AddAttributeWithOffset(c, attr.dim, NativeDataType(attr.data_type), attr.offset, attr.length),
                 attributes, i + 1)

RECURSIVE ConvertAttributes(_, _, _)
\* ffi.rs:50-62: the loop of convert_config, from the i-th attribute on.
ConvertAttributes(c, attributes, i) ==
    IF i > Len(attributes) THEN c
    ELSE LET attr == attributes[i]
         IN  ConvertAttributes(
                 AddAttributeWithOffset(c, attr.dim, NativeDataType(attr.data_type), attr.offset, attr.length),
                 attributes, i + 1)

\* convert_config
ConvertConfig(b, cc) ==
    LET made == WithBufferSize(b, cc.vertex_count, cc.index_count, cc.buffer_size)
    IN  [panicked |-> made.panicked, config |-> ConvertAttributes(made.config, cc.attributes, 1)]

\* ---------------------------------------------------------------------------
\* src/src/wasm.rs: the response of the worker decode module and its parsing.
\* A JavaScript value read as a number is a number (its sign and the integer
\* part of its magnitude) or something else (undefined, a string, an object).
\* ---------------------------------------------------------------------------
JsNumber(neg, mag) == [tag |-> "number", neg |-> neg, mag |-> mag]

JsUndefined == [tag |-> "undefined", neg |-> FALSE, mag |-> Zero]

\* wasm.rs:67-72, 82-84: `.as_f64().unwrap_or(0.0) as u32`. as_f64 is None for
\* a value that is no number; the cast saturates.
F64AsU32(v) ==
    IF v.tag # "number" \/ v.neg THEN Zero
    ELSE IF Fits(v.mag, U32Digits) THEN v.mag ELSE U32_MAX

\* wasm.rs:85-98: `.as_f64().unwrap_or(0.0) as i32`, then the match.
WorkerDataType(v) ==
    IF v.tag # "number" THEN "Int8"
    ELSE IF v.neg /\ v.mag # Zero THEN "Float32"
    ELSE CASE v.mag = Big(0) -> "Int8"
           [] v.mag = Big(1) -> "UInt8"
           [] v.mag = Big(2) -> "Int16"
           [] v.mag = Big(3) -> "UInt16"
           [] v.mag = Big(4) -> "Int32"
           [] v.mag = Big(5) -> "UInt32"
           [] v.mag = Big(6) -> "Float32"
           [] OTHER -> "Float32"

\* An element of the attributes array of a response.
JsAttribute(is_object, dim, data_type) == [is_object |-> is_object, dim |-> dim, data_type |-> data_type]

\* The value a decode promise resolves with: { decoded, config: { vertex_count,
\* index_count, attributes } }, each part possibly missing or of another type.
JsDecodeOutput(is_object, decoded_is_uint8array, decoded_len, config_is_object, vertex_count, index_count, attributes_is_array, attributes) ==
    [is_object |-> is_object, decoded_is_uint8array |-> decoded_is_uint8array, decoded_len |-> decoded_len,
     config_is_object |-> config_is_object, vertex_count |-> vertex_count, index_count |-> index_count,
     attributes_is_array |-> attributes_is_array, attributes |-> attributes]

\* What the parsing of a response ends in: Ok((decoded, config)), Err, or a panic.
ParseOk(decoded_len, c) == [outcome |-> "Ok", decoded_len |-> decoded_len, config |-> c]

ParseErr == [outcome |-> "Err", decoded_len |-> Zero, config |-> NoConfig]

ParsePanic == [outcome |-> "panic", decoded_len |-> Zero, config |-> NoConfig]

RECURSIVE ParseAttributes_Unchecked(_, _, _, _, _)
\* The loop had it taken each element for an object without checking
\* (unchecked_into for dyn_into).
ParseAttributes_Unchecked(b, c, out_obj, i, items) ==
    IF i > Len(items) THEN ParseOk(out_obj.decoded_len, c)
    ELSE LET added == AddAttribute(b, c, F64AsU32(items[i].dim), WorkerDataType(items[i].data_type))
         IN  IF added.panicked THEN ParsePanic
             ELSE ParseAttributes_Unchecked(b, added.config, out_obj, i + 1, items)

RECURSIVE ParseAttributes(_, _, _, _, _)
\* wasm.rs:79-103: the loop over the attributes array from the i-th element on.
ParseAttributes(b, c, out_obj, i, items) ==
    IF i > Len(items) THEN ParseOk(out_obj.decoded_len, c)
    ELSE IF ~items[i].is_object THEN ParseErr
    ELSE LET added == AddAttribute(b, c, F64AsU32(items[i].dim), WorkerDataType(items[i].data_type))
         IN  IF added.panicked THEN ParsePanic
             ELSE ParseAttributes(b, added.config, out_obj, i + 1, items)

\* wasm.rs:61-103: what decode_draco_mesh_from_embedded_js_with_config makes
\* of the value the decode promise resolved with.
ParseDecodeOutput(b, out_obj) ==
    IF ~out_obj.is_object \/ ~out_obj.decoded_is_uint8array THEN ParseErr
    ELSE IF ~out_obj.config_is_object THEN ParseErr
    ELSE IF ~out_obj.attributes_is_array THEN ParseErr
    ELSE LET made == New(b, F64AsU32(out_obj.vertex_count), F64AsU32(out_obj.index_count))
         IN  IF made.panicked THEN ParsePanic
             ELSE ParseAttributes(b, made.config, out_obj, 1, out_obj.attributes)

\* The decode calls that can be under way at once on the one thread of the
\* worker path, each a future of its own.
NCalls == 2

Calls == 1..NCalls

\* No response: what `response` holds until a decode promise resolves.
NoResponse == JsDecodeOutput(FALSE, FALSE, Zero, FALSE, JsUndefined, JsUndefined, FALSE, <<>>)

\* The builds of the worker path: wasm32, where usize is 32 bits.
WasmBuilds == {b \in Builds : b.usize_bytes = U32Digits}

\* The response of the worker decode module for mesh m, modelled from the
\* specification: the decoded bytes and the shape of the mesh, no offsets.
JsResponseOf(m) ==
    JsDecodeOutput(TRUE, TRUE, EngineMeshConfig(m).buffer_size, TRUE,
                   JsNumber(FALSE, m.vertex_count), JsNumber(FALSE, m.index_count), TRUE,
                   [i \in DOMAIN m.attributes |->
                       JsAttribute(TRUE, JsNumber(FALSE, m.attributes[i].dim), JsNumber(FALSE, Big(m.attributes[i].data_type)))])

\* ---------------------------------------------------------------------------
\* The layout engine driven by a caller: any constructor, then any calls.
\* ---------------------------------------------------------------------------
MaxCalls == 3

LayoutVertexCounts == {Big(16744), Pow2_16}

LayoutIndexCounts == {Big(54663), U16_MAX, Big(65536), Pow2_30m1, Pow2_30}

LayoutDims == {Big(2), Big(3), Pow2_16}

LayoutTypes == {"UInt8", "Int16", "Float32"}

LayoutOffsets == {Big(109326)}

LayoutLengths == {Big(12), U32_MAX}

LayoutBufferSizes == {Big(310254)}

NoOp == [name |-> "none", args |-> <<>>]

\* The calls that insert an attribute.
Insertions == {"add_attribute", "add_attribute_with_offset"}

\* No caller drives the layout engine directly.
LayoutIdle ==
    /\ status = "none"
    /\ calls = <<>>
    /\ op = NoOp
    /\ pre = NoConfig
    /\ inserted = <<>>

\* No native decode call is under way.
NativeIdle ==
    /\ entry = "none"
    /\ native_pc = "idle"
    /\ mesh = <<>>
    /\ cpp_config = NoCppConfig
    /\ buffer_len = Zero
    /\ written = Zero
    /\ failed = "none"
    /\ result = NoResult
    /\ engine_calls = <<>>

\* No worker decode call has started and the module cache is empty.
WorkerIdle ==
    /\ cache = 0
    /\ loads = 0
    /\ cache_writes = 0
    /\ worker_pc = [c \in Calls |-> "idle"]
    /\ loading_id = [c \in Calls |-> 0]
    /\ module_of = [c \in Calls |-> 0]
    /\ response = [c \in Calls |-> NoResponse]
    /\ worker_failed = [c \in Calls |-> "none"]
    /\ logged = [c \in Calls |-> FALSE]
    /\ worker_result = [c \in Calls |-> NoResult]

LayoutInit ==
    /\ build \in Builds
    /\ config = NoConfig
    /\ LayoutIdle
    /\ NativeIdle
    /\ WorkerIdle

\* What every call does to the caller's state, given what the call returned.
Returned(name, args, r) ==
    /\ config' = r.config
    /\ status' = IF r.panicked THEN "panic" ELSE "ok"
    /\ calls' = Append(calls, name)
    /\ op' = [name |-> name, args |-> args]
    /\ pre' = config
    /\ inserted' = IF name \in Insertions /\ ~r.panicked
                   THEN Append(inserted, [name |-> name, args |-> args])
                   ELSE inserted
    /\ UNCHANGED <<build, nativeVars, workerVars>>

CallNew ==
    /\ status = "none"
    /\ \E vertex_count \in LayoutVertexCounts, index_count \in LayoutIndexCounts :
         Returned("new", <<vertex_count, index_count>>, New(build, vertex_count, index_count))

CallWithBufferSize ==
    /\ status = "none"
    /\ \E vertex_count \in {Big(2)}, index_count \in {Big(54663), Pow2_30}, buffer_size \in LayoutBufferSizes \cup {Zero} :
         Returned("with_buffer_size", <<vertex_count, index_count, buffer_size>>,
                  WithBufferSize(build, vertex_count, index_count, buffer_size))

CallAddAttribute ==
    /\ status = "ok"
    /\ Len(calls) < MaxCalls
    /\ \E dim \in LayoutDims, data_type \in LayoutTypes :
         Returned("add_attribute", <<dim, data_type>>, AddAttribute(build, config, dim, data_type))

CallAddAttributeWithOffset ==
    /\ status = "ok"
    /\ Len(calls) < MaxCalls
    /\ \E dim \in {Big(3)}, data_type \in {"Int16"}, offset \in LayoutOffsets, length \in LayoutLengths :
         Returned("add_attribute_with_offset", <<dim, data_type, offset, length>>,
                  [panicked |-> FALSE, config |-> AddAttributeWithOffset(config, dim, data_type, offset, length)])

CallSetBufferSize ==
    /\ status = "ok"
    /\ Len(calls) < MaxCalls
    /\ \E size \in LayoutBufferSizes :
         Returned("set_buffer_size", <<size>>, [panicked |-> FALSE, config |-> SetBufferSize(config, size)])

LayoutNext ==
    \/ CallNew
    \/ CallWithBufferSize
    \/ CallAddAttribute
    \/ CallAddAttributeWithOffset
    \/ CallSetBufferSize

SpecLayout == LayoutInit /\ [][LayoutNext]_vars

\* ---------------------------------------------------------------------------
\* Properties of the layout engine.
\* ---------------------------------------------------------------------------
RECURSIVE SumLenght(_)
\* The exact sum of the lengths of a list of attributes.
SumLenght(attributes) ==
    IF attributes = <<>> THEN Zero ELSE Add(Head(attributes).lenght, SumLenght(Tail(attributes)))

\* The attributes of c tile [index_length, buffer_size): the first starts at
\* index_length, each next one starts where the one before ends, and
\* buffer_size is index_length plus the sum of the lengths (exact arithmetic).
Tiles(c) ==
    /\ c.attributes # <<>> => c.attributes[1].offset = c.index_length
    /\ \A i \in 1..(Len(c.attributes) - 1) :
         Add(c.attributes[i].offset, c.attributes[i].lenght) = c.attributes[i + 1].offset
    /\ c.buffer_size = Add(c.index_length, SumLenght(c.attributes))

\* The config was built by a constructor that returned.
Constructed == calls # <<>> /\ ~(Len(calls) = 1 /\ status = "panic")

\* The config was built by new and then changed by add_attribute calls only.
AutoOffsetOnly == calls # <<>> /\ calls[1] = "new" /\ \A i \in 2..Len(calls) : calls[i] = "add_attribute"

\* C1: for every u32 index_count, a config built by new or with_buffer_size
\* has index_length = index_count * 2 when index_count <= 65535 and
\* index_length = index_count * 4 otherwise.
C1_IndexLengthOfCount ==
    Constructed =>
        config.index_length =
            Mul(config.index_count, IF LessEq(config.index_count, U16_MAX) THEN Big(2) ELSE Big(4))

\* C2: after new(vertex_count, index_count) and any sequence of add_attribute
\* calls, the attributes tile [index_length, buffer_size) contiguously.
C2_AutoOffsetTiles == (AutoOffsetOnly /\ status = "ok") => Tiles(config)

\* C9: each add_attribute(dim, data_type) call appends exactly one attribute
\* whose offset is the buffer_size held before the call and whose length is
\* dim * vertex_count * size_in_bytes(data_type), and increases buffer_size by
\* exactly that length; new(16744, 54663), add_attribute(3, Float32),
\* add_attribute(2, Float32) gives index_length 109326, attribute 0 at 109326
\* with length 200928, attribute 1 at 310254 with length 133952.
C9_AddAttributeEffect ==
    /\ (op.name = "add_attribute" /\ status = "ok") =>
         LET length == Mul(Mul(op.args[1], pre.vertex_count), size_in_bytes(op.args[2]))
         IN  /\ config.attributes = Append(pre.attributes, MeshAttribute(op.args[1], op.args[2], pre.buffer_size, length))
             /\ config.buffer_size = Add(pre.buffer_size, length)
    /\ (/\ calls = <<"new", "add_attribute", "add_attribute">>
        /\ config.vertex_count = Big(16744) /\ config.index_count = Big(54663)
        /\ Len(config.attributes) = 2
        /\ config.attributes[1].dim = Big(3) /\ config.attributes[1].data_type = "Float32"
        /\ config.attributes[2].dim = Big(2) /\ config.attributes[2].data_type = "Float32")
       => /\ config.index_length = Big(109326)
          /\ GetAttribute(config, 0) = <<MeshAttribute(Big(3), "Float32", Big(109326), Big(200928))>>
          /\ GetAttribute(config, 1) = <<MeshAttribute(Big(2), "Float32", Big(310254), Big(133952))>>

\* C10: each add_attribute_with_offset(dim, data_type, offset, length) call
\* appends one attribute holding exactly the four supplied values and leaves
\* buffer_size, index_length, vertex_count, index_count and all earlier
\* attributes unchanged.
C10_WithOffsetAppendsVerbatim ==
    op.name = "add_attribute_with_offset" =>
        /\ status = "ok"
        /\ Len(config.attributes) = Len(pre.attributes) + 1
        /\ config.attributes[Len(config.attributes)] = MeshAttribute(op.args[1], op.args[2], op.args[3], op.args[4])
        /\ SubSeq(config.attributes, 1, Len(pre.attributes)) = pre.attributes
        /\ config.buffer_size = pre.buffer_size
        /\ config.index_length = pre.index_length
        /\ config.vertex_count = pre.vertex_count
        /\ config.index_count = pre.index_count

\* An add_attribute_with_offset call on a config that already holds an
\* attribute and whose buffer_size is not 0.
C10_Witness ==
    /\ op.name = "add_attribute_with_offset"
    /\ pre.attributes # <<>>
    /\ pre.buffer_size # Zero
    /\ Len(config.attributes) = Len(pre.attributes) + 1

\* ---------------------------------------------------------------------------
\* The native orchestrator: lib.rs decode_mesh_with_config and
\* decode_mesh_with_config_sync, both ffi::decode_mesh_with_config, one step
\* for each call into the engine.
\* ---------------------------------------------------------------------------
MaxMeshAttrs == 3

NativeVertexCounts == {Big(1), Big(3254)}

NativeIndexCounts == {Zero, Big(4368), Big(65536), Pow2_30m1, Pow2_30}

NativeDims == {Big(3)}

\* The codes of the attributes of the longer meshes: UInt8, Float32 and the
\* unknown code. A mesh of one attribute has any code.
NativeCodes == {1, 6, UnknownCode}

EngineAttribute(dim, data_type) == [dim |-> dim, data_type |-> data_type]

\* The meshes an encoded input can hold.
EngineMeshes ==
    [vertex_count : NativeVertexCounts, index_count : NativeIndexCounts,
     attributes : UNION {[1..k -> {EngineAttribute(d, t) : d \in NativeDims, t \in NativeCodes}] : k \in 0..MaxMeshAttrs}
                    \cup {<<EngineAttribute(d, t)>> : d \in NativeDims, t \in KnownCodes \cup {UnknownCode}}]

\* What decode_mesh_to_buffer can return for a buffer of out_len bytes: 0, or
\* a number of bytes written, at most out_len.
EngineWritten(out_len) == {w \in {Zero, Big(6), out_len} : LessEq(w, out_len)}

NativeInit ==
    /\ build \in Builds
    /\ config = NoConfig
    /\ LayoutIdle
    /\ NativeIdle
    /\ WorkerIdle

\* ffi.rs:68-71: create_mesh, and the panic on a null handle.
NativeCreateMesh ==
    /\ native_pc = "idle"
    /\ \E e \in {"decode_mesh_with_config", "decode_mesh_with_config_sync"} : entry' = e
    /\ engine_calls' = Append(engine_calls, "create_mesh")
    /\ \/ \E m \in EngineMeshes :
            /\ Representable(build, EngineMeshConfig(m))
            /\ mesh' = <<m>>
            /\ native_pc' = "created"
            /\ UNCHANGED <<failed, result>>
       \/ /\ mesh' = <<>>
          /\ failed' = "create_mesh"
          /\ result' = Panic
          /\ native_pc' = "done"
    /\ UNCHANGED <<build, config, layoutVars, workerVars, cpp_config, buffer_len, written>>

\* ffi.rs:73-87: compute_mesh_config, the panic on failure, convert_config and
\* the allocation of the buffer.
NativeComputeMeshConfig ==
    /\ native_pc = "created"
    /\ engine_calls' = Append(engine_calls, "compute_mesh_config")
    /\ \/ \E cc \in {EngineMeshConfig(mesh[1])} : \E converted \in {ConvertConfig(build, cc)} :
              /\ cpp_config' = cc
              /\ config' = converted.config
              /\ buffer_len' = cc.buffer_size
              /\ IF converted.panicked
                 THEN result' = Panic /\ native_pc' = "done"
                 ELSE result' = result /\ native_pc' = "configured"
              /\ UNCHANGED failed
       \/ /\ failed' = "compute_mesh_config"
          /\ result' = Panic
          /\ native_pc' = "done"
          /\ UNCHANGED <<cpp_config, config, buffer_len>>
    /\ UNCHANGED <<build, layoutVars, workerVars, entry, mesh, written>>

\* Vec::truncate: the length after truncate(len).
Truncate(length, len) == IF LessEq(len, length) THEN len ELSE length

\* The last step had it no check of `written == 0`: the result is assembled
\* whatever the engine returned.
NativeDecodeMeshToBuffer_ZeroAccepted ==
    /\ native_pc = "configured"
    /\ engine_calls' = Append(engine_calls, "decode_mesh_to_buffer")
    /\ \E w \in EngineWritten(buffer_len) :
         /\ written' = w
         /\ result' = MeshDecodeResult(Truncate(buffer_len, w), config)
    /\ native_pc' = "done"
    /\ UNCHANGED <<build, config, layoutVars, workerVars, entry, mesh, cpp_config, buffer_len, failed>>

\* ffi.rs:89-101: decode_mesh_to_buffer, the panic on 0 bytes, truncate and
\* the result.
NativeDecodeMeshToBuffer ==
    /\ native_pc = "configured"
    /\ engine_calls' = Append(engine_calls, "decode_mesh_to_buffer")
    /\ \E w \in EngineWritten(buffer_len) :
         /\ written' = w
         /\ IF w = Zero
            THEN failed' = "decode_mesh_to_buffer" /\ result' = Panic
            ELSE failed' = failed /\ result' = MeshDecodeResult(Truncate(buffer_len, w), config)
    /\ native_pc' = "done"
    /\ UNCHANGED <<build, config, layoutVars, workerVars, entry, mesh, cpp_config, buffer_len>>

NativeNext ==
    \/ NativeCreateMesh
    \/ NativeComputeMeshConfig
    \/ NativeDecodeMeshToBuffer

SpecNative == NativeInit /\ [][NativeNext]_vars

\* ---------------------------------------------------------------------------
\* Properties of the native orchestrator.
\* ---------------------------------------------------------------------------
\* C3: for the same logical mesh the config of the native path
\* (with_buffer_size, then add_attribute_with_offset for each attribute the
\* engine reports) and the config of the worker path (new, then add_attribute
\* for each attribute received) are structurally equal.
C3_NativeEqualsWorker ==
    result.kind = "Some" =>
        \A wb \in WasmBuilds :
            LET parsed == ParseDecodeOutput(wb, JsResponseOf(mesh[1]))
            IN  parsed.outcome = "Ok" /\ parsed.config = result.config

\* C4: every MeshDecodeResult a decode returns has data.len() = config.buffer_size,
\* also when the engine wrote fewer bytes than the buffer held.
C4_DataLenIsBufferSize == result.kind = "Some" => result.data_len = result.config.buffer_size

\* C5: when native decoding fails at any stage (null handle, failed config
\* query, 0 bytes written) the decode call returns None: it neither aborts the
\* host nor returns Some.
C5_NativeFailureIsNone == (native_pc = "done" /\ failed # "none") => result = None

\* C8: every config a successful native decode returns has buffer_size =
\* index_length + the sum of the attribute lengths, as many attributes as the
\* engine reported, and attributes that tile [index_length, buffer_size).
C8_NativeConfigTiles ==
    result.kind = "Some" =>
        /\ Tiles(result.config)
        /\ Len(result.config.attributes) = Len(cpp_config.attributes)
        /\ Len(result.config.attributes) = Len(mesh[1].attributes)

\* The engine functions in the order decode_mesh_with_config calls them.
EngineOrder == <<"create_mesh", "compute_mesh_config", "decode_mesh_to_buffer">>

\* C12: the native orchestrator calls the engine in the fixed order
\* create_mesh, compute_mesh_config, decode_mesh_to_buffer: compute_mesh_config
\* only after a non-null handle was obtained, decode_mesh_to_buffer only after
\* the config query succeeded and with a buffer of exactly the reported
\* buffer_size bytes; a result is assembled only after a nonzero
\* bytes_written, its data truncated to bytes_written.
C12_EngineCallOrder ==
    /\ \E k \in 0..Len(EngineOrder) : engine_calls = SubSeq(EngineOrder, 1, k)
    /\ Len(engine_calls) >= 2 => (mesh # <<>> /\ failed # "create_mesh")
    /\ Len(engine_calls) >= 3 =>
         /\ failed \notin {"create_mesh", "compute_mesh_config"}
         /\ cpp_config = EngineMeshConfig(mesh[1])
         /\ buffer_len = cpp_config.buffer_size
    /\ result.kind = "Some" =>
         /\ engine_calls = EngineOrder
         /\ failed = "none"
         /\ written # Zero
         /\ result.data_len = written

\* A native decode that returned a result after the engine wrote fewer bytes
\* than the buffer held.
C12_Witness ==
    /\ result.kind = "Some"
    /\ engine_calls = EngineOrder
    /\ written = Big(6)
    /\ buffer_len # written
    /\ result.data_len = Big(6)

\* A successful native decode of a mesh of 3254 vertices, 4368 indices and 3
\* attributes, the fixture of test_decode_mesh_with_config.
C8_Witness ==
    /\ result.kind = "Some"
    /\ result.config.vertex_count = Big(3254)
    /\ result.config.index_count = Big(4368)
    /\ Len(result.config.attributes) = 3
    /\ result.config.attributes[3].lenght # Zero

\* ---------------------------------------------------------------------------
\* The worker orchestrator: decode_mesh_wasm_worker_with_config, called NCalls
\* times on one thread. A call runs until its next await; the calls interleave
\* at the awaits.
\* ---------------------------------------------------------------------------
WorkerOutput == JsDecodeOutput(TRUE, TRUE, Big(42), TRUE, JsNumber(FALSE, Big(2)), JsNumber(FALSE, Big(3)), TRUE,
                               <<JsAttribute(TRUE, JsNumber(FALSE, Big(3)), JsNumber(FALSE, Big(6)))>>)

\* A response whose first attribute overflows u32 and whose second is no object.
OverflowingOutput ==
    [WorkerOutput EXCEPT !.vertex_count = JsNumber(FALSE, Pow2_16),
                         !.attributes = <<JsAttribute(TRUE, JsNumber(FALSE, Pow2_16), JsNumber(FALSE, Big(1))),
                                          JsAttribute(FALSE, JsUndefined, JsUndefined)>>]

\* A well-formed response of three attributes, no two alike.
ThreeAttributeOutput ==
    [WorkerOutput EXCEPT !.attributes = <<JsAttribute(TRUE, JsNumber(FALSE, Big(3)), JsNumber(FALSE, Big(6))),
                                          JsAttribute(TRUE, JsNumber(FALSE, Big(2)), JsNumber(FALSE, Big(1))),
                                          JsAttribute(TRUE, JsNumber(FALSE, Big(4)), JsNumber(FALSE, Big(UnknownCode)))>>]

\* The values a decode promise can resolve with: a well-formed response, and
\* responses with a part missing or of another type, or a number out of range.
Responses ==
    { WorkerOutput,
      ThreeAttributeOutput,
      [WorkerOutput EXCEPT !.is_object = FALSE],
      [WorkerOutput EXCEPT !.decoded_is_uint8array = FALSE],
      [WorkerOutput EXCEPT !.config_is_object = FALSE],
      [WorkerOutput EXCEPT !.attributes_is_array = FALSE],
      [WorkerOutput EXCEPT !.attributes = Append(@, JsAttribute(FALSE, JsUndefined, JsUndefined))],
      [WorkerOutput EXCEPT !.vertex_count = JsUndefined],
      [WorkerOutput EXCEPT !.index_count = JsUndefined],
      [WorkerOutput EXCEPT !.attributes[1].dim = JsUndefined],
      [WorkerOutput EXCEPT !.attributes[1].data_type = JsUndefined],
      [WorkerOutput EXCEPT !.attributes[1].data_type = JsNumber(FALSE, Big(UnknownCode))],
      [WorkerOutput EXCEPT !.attributes[1].data_type = JsNumber(TRUE, Big(1))],
      [WorkerOutput EXCEPT !.vertex_count = JsNumber(TRUE, Big(2))],
      [WorkerOutput EXCEPT !.index_count = JsNumber(FALSE, Mul(U32_MAX, Big(2)))],
      OverflowingOutput }

\* The responses each call can get: the first call any of them, a later call
\* the well-formed one.
ResponsesOf(c) == IF c = 1 THEN Responses ELSE {WorkerOutput}

WorkerInit ==
    /\ build \in WasmBuilds
    /\ config = NoConfig
    /\ LayoutIdle
    /\ NativeIdle
    /\ WorkerIdle

\* wasm.rs:114-117: the Err arm of decode_mesh_wasm_worker_with_config.
EndErr(c, err) ==
    /\ worker_failed' = [worker_failed EXCEPT ![c] = err]
    /\ logged' = [logged EXCEPT ![c] = TRUE]
    /\ worker_result' = [worker_result EXCEPT ![c] = None]
    /\ worker_pc' = [worker_pc EXCEPT ![c] = "done"]

\* wasm.rs:50-59: the decode export is read and called, up to the await of the
\* promise it returns. The export can be missing or no function, the call can
\* throw or return no promise.
InvokeDecode(c) ==
    \/ \E err \in {"export", "call"} : EndErr(c, err)
    \/ /\ worker_pc' = [worker_pc EXCEPT ![c] = "decoding"]
       /\ UNCHANGED <<worker_failed, logged, worker_result>>

\* wasm.rs:106-109, 47, 13-37: a call starts. With a module in the cache it
\* goes on to the decode call; with none it evaluates the import and awaits
\* the module promise.
WorkerStart(c) ==
    /\ worker_pc[c] = "idle"
    /\ IF cache # 0
       THEN /\ module_of' = [module_of EXCEPT ![c] = cache]
            /\ InvokeDecode(c)
            /\ UNCHANGED <<loads, loading_id>>
       ELSE \/ /\ EndErr(c, "eval")
               /\ UNCHANGED <<loads, loading_id, module_of>>
            \/ /\ loads' = loads + 1
               /\ loading_id' = [loading_id EXCEPT ![c] = loads + 1]
               /\ worker_pc' = [worker_pc EXCEPT ![c] = "loading"]
               /\ UNCHANGED <<module_of, worker_failed, logged, worker_result>>
    /\ UNCHANGED <<build, config, layoutVars, nativeVars, cache, cache_writes, response>>

\* wasm.rs:37-41, 50-59: the module promise settles. Rejected, the call ends
\* in Err; resolved, the module is written to the cache and the call goes on
\* to the decode call.
WorkerModuleSettled(c) ==
    /\ worker_pc[c] = "loading"
    /\ \/ /\ EndErr(c, "import")
          /\ UNCHANGED <<cache, cache_writes, module_of>>
       \/ /\ cache' = loading_id[c]
          /\ cache_writes' = cache_writes + 1
          /\ module_of' = [module_of EXCEPT ![c] = loading_id[c]]
          /\ InvokeDecode(c)
    /\ UNCHANGED <<build, config, layoutVars, nativeVars, loads, loading_id, response>>

\* wasm.rs:59-103, 109-118: the decode promise settles. Rejected, the call
\* ends in Err; resolved, the response is parsed and the call returns.
WorkerDecodeSettled(c) ==
    /\ worker_pc[c] = "decoding"
    /\ \/ /\ EndErr(c, "reject")
          /\ UNCHANGED response
       \/ \E out_obj \in ResponsesOf(c) : \E parsed \in {ParseDecodeOutput(build, out_obj)} :
                /\ response' = [response EXCEPT ![c] = out_obj]
                /\ IF parsed.outcome = "Err"
                   THEN EndErr(c, "response")
                   ELSE /\ worker_result' =
                             [worker_result EXCEPT ![c] = IF parsed.outcome = "Ok"
                                                          THEN MeshDecodeResult(parsed.decoded_len, parsed.config)
                                                          ELSE Panic]
                        /\ worker_pc' = [worker_pc EXCEPT ![c] = "done"]
                        /\ UNCHANGED <<worker_failed, logged>>
    /\ UNCHANGED <<build, config, layoutVars, nativeVars, cache, loads, cache_writes, loading_id, module_of>>

WorkerNext == \E c \in Calls : WorkerStart(c) \/ WorkerModuleSettled(c) \/ WorkerDecodeSettled(c)

SpecWorker == WorkerInit /\ [][WorkerNext]_vars

\* ---------------------------------------------------------------------------
\* Properties of the worker orchestrator.
\* ---------------------------------------------------------------------------
\* C6: under any interleaving of decode calls the module is loaded at most
\* once (no two loads are under way together), the cache is written at most
\* once, and every caller obtains the same module reference.
C6_ModuleLoadedOnce ==
    /\ Cardinality({c \in Calls : worker_pc[c] = "loading"}) <= 1
    /\ cache_writes <= 1
    /\ \A c1, c2 \in Calls : (module_of[c1] # 0 /\ module_of[c2] # 0) => module_of[c1] = module_of[c2]

\* The response has a part that makes the parsing raise an Err when it gets to
\* it: it is no object, decoded is no Uint8Array, config is no object,
\* attributes is no Array, or an element of attributes is no object.
Malformed(out_obj) ==
    \/ ~out_obj.is_object
    \/ ~out_obj.decoded_is_uint8array
    \/ ~out_obj.config_is_object
    \/ ~out_obj.attributes_is_array
    \/ \E i \in DOMAIN out_obj.attributes : ~out_obj.attributes[i].is_object

\* A numeric field of the response is missing or no number.
NumberMissing(out_obj) ==
    \/ out_obj.vertex_count.tag # "number"
    \/ out_obj.index_count.tag # "number"
    \/ \E i \in DOMAIN out_obj.attributes :
         out_obj.attributes[i].dim.tag # "number" \/ out_obj.attributes[i].data_type.tag # "number"

\* The call got a response from the decode promise.
Responded(c) == worker_pc[c] = "done" /\ response[c] # NoResponse

\* C7 as claimed: any failure of the round trip (module load or eval error,
\* missing or non-function decode export, rejected decode promise, response
\* field missing or of the wrong type) makes the call return None after
\* logging; none ends in a panic or in a MeshDecodeResult.
C7_AnyFailureIsNone ==
    \A c \in Calls :
        (worker_pc[c] = "done"
            /\ (worker_failed[c] # "none" \/ (Responded(c) /\ (Malformed(response[c]) \/ NumberMissing(response[c])))))
        => (worker_result[c] = None /\ logged[c])

\* C7 as amended: every Err raised in the round trip ends the call in None
\* after logging; a malformed response never ends in a MeshDecodeResult, and
\* ends in None unless an arithmetic overflow panicked first, which only a
\* build with overflow checks does; a missing or non-numeric vertex_count,
\* index_count, dim or data_type is no failure but is read as 0.
C7_RaisedErrIsNone ==
    \A c \in Calls :
        worker_pc[c] = "done" =>
            /\ worker_failed[c] # "none" => (worker_result[c] = None /\ logged[c])
            /\ (Responded(c) /\ Malformed(response[c])) =>
                   /\ worker_result[c].kind # "Some"
                   /\ worker_result[c].kind = "None" => (worker_failed[c] = "response" /\ logged[c])
            /\ worker_result[c].kind = "panic" => build.overflow_checks
            /\ (worker_result[c].kind = "Some" /\ response[c].vertex_count.tag # "number")
                   => worker_result[c].config.vertex_count = Zero
            /\ (Responded(c) /\ ~Malformed(response[c]) /\ ~build.overflow_checks)
                   => worker_result[c].kind = "Some"

\* A call whose response held an element that is no object, after a
\* well-formed one, and that returned None after logging.
C7_Witness ==
    \E c \in Calls :
        /\ Responded(c)
        /\ response[c].attributes_is_array
        /\ Len(response[c].attributes) = 2
        /\ ~response[c].attributes[2].is_object
        /\ worker_failed[c] = "response"
        /\ worker_result[c] = None
        /\ logged[c]

\* ---------------------------------------------------------------------------
\* The crate as a host uses it: the layout engine driven directly, a native
\* decode, or worker decodes. The three share no state but the build, so a
\* behaviour is one of the three.
\* ---------------------------------------------------------------------------
DecoderInit ==
    /\ build \in Builds
    /\ config = NoConfig
    /\ LayoutIdle
    /\ NativeIdle
    /\ WorkerIdle

DecoderNext ==
    \/ NativeIdle /\ WorkerIdle /\ LayoutNext
    \/ LayoutIdle /\ WorkerIdle /\ NativeNext
    \/ LayoutIdle /\ NativeIdle /\ build \in WasmBuilds /\ WorkerNext

SpecDecoder == DecoderInit /\ [][DecoderNext]_vars

\* ---------------------------------------------------------------------------
\* Properties of the attribute list.
\* ---------------------------------------------------------------------------
\* The attribute holds what the insertion call ins supplied: dim and data_type,
\* and for add_attribute_with_offset the offset and the length too.
InsertedBy(attribute, ins) ==
    /\ attribute.dim = ins.args[1]
    /\ attribute.data_type = ins.args[2]
    /\ ins.name = "add_attribute_with_offset" => (attribute.offset = ins.args[3] /\ attribute.lenght = ins.args[4])

\* C11: the attribute list is append-only and order-preserving: after any
\* sequence of add_attribute / add_attribute_with_offset calls get_attribute(i)
\* is the attribute inserted by the i-th call, no call changes or moves an
\* attribute inserted before it, and in the native and in the worker path the
\* attributes of the resulting config are in the order the engine reported
\* them (the order of cpp::MeshConfig.attributes, the order of the attributes
\* array of the response).
C11_AppendOnlyInOrder ==
    /\ status = "ok" => Len(config.attributes) = Len(inserted)
    /\ \A i \in DOMAIN inserted :
         /\ GetAttribute(config, i - 1) # <<>>
         /\ InsertedBy(GetAttribute(config, i - 1)[1], inserted[i])
    /\ op.name # "none" =>
         /\ Len(pre.attributes) <= Len(config.attributes)
         /\ SubSeq(config.attributes, 1, Len(pre.attributes)) = pre.attributes
    /\ result.kind = "Some" =>
         /\ Len(result.config.attributes) = Len(cpp_config.attributes)
         /\ \A i \in DOMAIN cpp_config.attributes :
              GetAttribute(result.config, i - 1) =
                  <<MeshAttribute(cpp_config.attributes[i].dim, NativeDataType(cpp_config.attributes[i].data_type),
                                  cpp_config.attributes[i].offset, cpp_config.attributes[i].length)>>
    /\ \A c \in Calls :
         worker_result[c].kind = "Some" =>
             /\ Len(worker_result[c].config.attributes) = Len(response[c].attributes)
             /\ \A i \in DOMAIN response[c].attributes :
                  /\ GetAttribute(worker_result[c].config, i - 1) # <<>>
                  /\ GetAttribute(worker_result[c].config, i - 1)[1].dim = F64AsU32(response[c].attributes[i].dim)
                  /\ GetAttribute(worker_result[c].config, i - 1)[1].data_type =
                         WorkerDataType(response[c].attributes[i].data_type)

\* A config after an add_attribute call and then an add_attribute_with_offset
\* call, the two attributes unlike in every field.
C11_Witness ==
    /\ status = "ok"
    /\ Len(inserted) = 2
    /\ inserted[1].name = "add_attribute"
    /\ inserted[2].name = "add_attribute_with_offset"
    /\ Len(config.attributes) = 2
    /\ config.attributes[1].dim # config.attributes[2].dim
    /\ config.attributes[1].data_type # config.attributes[2].data_type
    /\ config.attributes[1].offset # config.attributes[2].offset
    /\ config.attributes[1].lenght # config.attributes[2].lenght

\* ---------------------------------------------------------------------------
\* Properties of the data-type codes.
\* ---------------------------------------------------------------------------
\* The AttributeDataType of the codes 0..6, the one of code k at k + 1.
CodeTable == <<"Int8", "UInt8", "Int16", "UInt16", "Int32", "UInt32", "Float32">>

\* The value is a numeric code: a number that is a u32.
IsCode(v) == v.tag = "number" /\ ~v.neg /\ Fits(v.mag, U32Digits)

\* The data type dt is the one the claim gives the code: the entry of the
\* table for a code of 0..6, and for every code the type that both paths map
\* it to.
MapsAsClaimed(code, dt) ==
    /\ dt \in AttributeDataType
    /\ \A k \in KnownCodes : code = Big(k) => dt = CodeTable[k + 1]
    /\ dt = NativeDataType(code)
    /\ dt = WorkerDataType(JsNumber(FALSE, code))

\* C13: in both paths the mapping from a numeric data-type code to
\* AttributeDataType is total: the codes 0..6 map to Int8, UInt8, Int16,
\* UInt16, Int32, UInt32, Float32, every other code maps to one fixed fallback
\* type and fails nothing, and for every code the native and the worker path
\* yield the same AttributeDataType.
C13_SameTypeOfCode ==
    /\ result.kind = "Some" =>
         \A i \in DOMAIN cpp_config.attributes :
             MapsAsClaimed(cpp_config.attributes[i].data_type, result.config.attributes[i].data_type)
    /\ \A c \in Calls :
         worker_result[c].kind = "Some" =>
             \A i \in DOMAIN response[c].attributes :
                 IsCode(response[c].attributes[i].data_type) =>
                     MapsAsClaimed(response[c].attributes[i].data_type.mag,
                                   worker_result[c].config.attributes[i].data_type)

====
